---- MODULE Spec2Model ----
(***************************************************************************)
(* The dashboard controller of app/static/js/scripts.js as a state         *)
(* machine: the toast container and its timers, the location form and its  *)
(* simulated submission, the temperature chart, and the ClimateAPI client. *)
(* JavaScript runs one handler at a time, so every handler is one atomic   *)
(* action; handlers are operators from a state record to a state record,   *)
(* composed in the order of the statements of the source.                  *)
(***************************************************************************)
EXTENDS Integers, Sequences, FiniteSets, TLC

(***************************************************************************)
(* Bounds of the model.                                                    *)
(***************************************************************************)
\* calls of window.ClimateApp.showToast by other modules in one run
MaxToasts == 2
\* submissions of the location form in one run
MaxSubmits == 1
\* calls of ClimateAPI.request in one run
MaxRequests == 1
\* midnights that pass in one run
MaxNights == 1
\* steps of time followed after the bootstrap, where time is bounded
MaxTicks == 14
\* simulated flows (action cards and the demo) started
MaxFlows == 2
\* steps of time before the poll within which the user and the callers of
\* the API act, where the poll is followed for ever
MaxLead == 2

(***************************************************************************)
(* Delays of the source, in milliseconds.                                  *)
(***************************************************************************)
ToastTTL == 5000
SubmitDelay == 1500
DashboardDelay == 1000
AnimationDuration == 2000
PollInterval == 30000
AnalysisDelay == 3000
ReportDelay == 2000
EmergencyDelay == 2500
DemoDelay == 1500

RECURSIVE Gcd(_, _)
Gcd(a, b) == IF b = 0 THEN a ELSE Gcd(b, a % b)

\* Time advances in steps of the greatest common divisor of the delays, so
\* that every deadline falls on a step.
TickMs ==
    Gcd(Gcd(Gcd(Gcd(ToastTTL, SubmitDelay), Gcd(DashboardDelay, PollInterval)),
            Gcd(AnimationDuration, Gcd(AnalysisDelay, ReportDelay))),
        Gcd(EmergencyDelay, DemoDelay))

Min(a, b) == IF a < b THEN a ELSE b

Null == "null"

VARIABLES
    toasts,      \* every toast element created so far, in creation order
    container,   \* the children of #toast-container: toast ids, in DOM order
    timers,      \* the pending setTimeout/setInterval timers
    timerCount,  \* timers created so far (the next timer id is timerCount + 1)
    faults,      \* exceptions no handler caught
    initialized, \* initializeApp has run: the listeners are registered
    form,        \* the values of the fields of .location-form
    modal,       \* the inline style of #location-modal
    storage,     \* localStorage's auth_token
    api,         \* the ClimateAPI instance
    requests,    \* the calls of ClimateAPI.request so far
    canvas,      \* the page holds #temperature-chart
    chart,       \* temperatureChart: the labels and the data of its dataset
    lastRange,   \* the token of the last updateChartData call
    today,       \* the local calendar day: [y, m, d], m from 0 as in Date
    nights,      \* midnights passed so far
    rng,         \* the state of the generator behind Math.random
    stats,       \* the textContent of the .stat-number elements
    frames,      \* the update callbacks given to requestAnimationFrame
    search,      \* the inline style of #search-overlay
    focus,       \* the element that has the focus
    query,       \* the value of #global-search
    navActive,   \* the .nav-link elements of class active
    navMenu,     \* #nav-menu is of class active
    last         \* the handler that ran last and the effects it had, in order

vars == <<toasts, container, timers, timerCount, faults, initialized, form,
          modal, storage, api, requests, canvas, chart, lastRange, today,
          nights, rng, stats, frames, search, focus, query, navActive,
          navMenu, last>>

(***************************************************************************)
(* The state the handlers work on, as one record.                          *)
(***************************************************************************)
Cur(event) ==
    [toasts |-> toasts, container |-> container, timers |-> timers,
     timerCount |-> timerCount, faults |-> faults,
     initialized |-> initialized, form |-> form, modal |-> modal,
     storage |-> storage, api |-> api, requests |-> requests,
     canvas |-> canvas, chart |-> chart, lastRange |-> lastRange,
     today |-> today, nights |-> nights, rng |-> rng,
     stats |-> stats, frames |-> frames, search |-> search,
     focus |-> focus, query |-> query, navActive |-> navActive,
     navMenu |-> navMenu,
     event |-> event, arg |-> 0, effects |-> <<>>]

Become(s) ==
    /\ toasts' = s.toasts
    /\ container' = s.container
    /\ timers' = s.timers
    /\ timerCount' = s.timerCount
    /\ faults' = s.faults
    /\ initialized' = s.initialized
    /\ form' = s.form
    /\ modal' = s.modal
    /\ storage' = s.storage
    /\ api' = s.api
    /\ requests' = s.requests
    /\ canvas' = s.canvas
    /\ chart' = s.chart
    /\ lastRange' = s.lastRange
    /\ today' = s.today
    /\ nights' = s.nights
    /\ rng' = s.rng
    /\ stats' = s.stats
    /\ frames' = s.frames
    /\ search' = s.search
    /\ focus' = s.focus
    /\ query' = s.query
    /\ navActive' = s.navActive
    /\ navMenu' = s.navMenu
    /\ last' = [event |-> s.event, arg |-> s.arg, effects |-> s.effects]

Effect(s, e) == [s EXCEPT !.effects = Append(@, e)]

(***************************************************************************)
(* Timers.                                                                 *)
(***************************************************************************)
setTimeout(s, kind, delay, arg) ==
    [s EXCEPT !.timerCount = @ + 1,
              !.timers = @ \cup {[id |-> s.timerCount + 1, kind |-> kind,
                                  delay |-> delay, left |-> delay, arg |-> arg,
                                  repeat |-> FALSE]}]

setInterval(s, kind, delay) ==
    [s EXCEPT !.timerCount = @ + 1,
              !.timers = @ \cup {[id |-> s.timerCount + 1, kind |-> kind,
                                  delay |-> delay, left |-> delay, arg |-> 0,
                                  repeat |-> TRUE]}]

\* As TimerAgain, for a timer that runs once.
TimerAgainNever(s, t) == [s EXCEPT !.timers = @ \ {t}]

\* An interval timer that has run is set again, with the same delay.
TimerAgain(s, t) ==
    [s EXCEPT !.timers = (@ \ {t}) \cup {[t EXCEPT !.left = t.delay]}]

\* A timer that has run is no longer pending.
TimerDone(s, t) == [s EXCEPT !.timers = @ \ {t}]

\* The timer task runs when the delay has passed, after every timer that was
\* set earlier with a delay no longer than its own.
Due(t) ==
    /\ t \in timers
    /\ t.left = 0
    /\ \A u \in timers : ~(u.id < t.id /\ u.delay <= t.delay /\ u.left = 0)

(***************************************************************************)
(* Toasts.                                                                 *)
(***************************************************************************)
InContainer(s, id) == \E i \in 1..Len(s.container) : s.container[i] = id

\* Element.remove(): detaches the element; a detached element stays detached.
remove(s, id) ==
    [s EXCEPT !.container = SelectSeq(@, LAMBDA x : x # id)]

\* Node.removeChild(): throws when the node is not a child.
removeChild(s, id) ==
    IF InContainer(s, id) THEN remove(s, id)
    ELSE [s EXCEPT !.faults = @ + 1]

Icon(type) ==
    IF type = "success" THEN "check-circle"
    ELSE IF type = "error" THEN "exclamation-triangle"
    ELSE "info-circle"

\* As showToast, with the toast inserted before the toasts shown.
showToastOnTop(s, message, type) ==
    LET id == Len(s.toasts) + 1
        toast == [message |-> message, type |-> type, icon |-> Icon(type),
                  age |-> 0, dismissed |-> FALSE]
        s1 == [s EXCEPT !.toasts = Append(@, toast),
                        !.container = <<id>> \o @]
    IN  setTimeout(Effect(s1, <<"toast", type, message>>), "toast", ToastTTL, id)

\* As showToast, with one toast shown at a time: the toasts shown before
\* are removed and their timers cleared.
showToastAlone(s, message, type) ==
    LET id == Len(s.toasts) + 1
        toast == [message |-> message, type |-> type, icon |-> Icon(type),
                  age |-> 0, dismissed |-> FALSE]
        s1 == [s EXCEPT !.toasts = Append(@, toast),
                        !.container = <<id>>,
                        !.timers = {t \in @ : t.kind # "toast"}]
    IN  setTimeout(Effect(s1, <<"toast", type, message>>), "toast", ToastTTL, id)

showToast(s, message, type) ==
    LET id == Len(s.toasts) + 1
        toast == [message |-> message, type |-> type, icon |-> Icon(type),
                  age |-> 0, dismissed |-> FALSE]
        s1 == [s EXCEPT !.toasts = Append(@, toast),
                        !.container = Append(@, id)]
    IN  setTimeout(Effect(s1, <<"toast", type, message>>), "toast", ToastTTL, id)

\* As ToastTimeoutCallback, removing the oldest toast shown.
ToastTimeoutCallbackOldest(s, t) ==
    IF Len(s.container) > 0 THEN remove(s, s.container[1]) ELSE s

\* As ToastTimeoutCallback, without the test of toast.parentElement.
ToastTimeoutCallbackUnguarded(s, t) == removeChild(s, t.arg)

\* The callback of the auto-remove timer of toast t.arg.
ToastTimeoutCallback(s, t) ==
    IF InContainer(s, t.arg) THEN remove(s, t.arg) ELSE s

\* As ToastCloseClick, clearing the timer of the toast as well.
ToastCloseClickClearing(s, id) ==
    LET s1 == remove([s EXCEPT !.toasts[id].dismissed = TRUE, !.arg = id], id)
    IN  [s1 EXCEPT !.timers =
            {t \in @ : ~(t.kind = "toast" /\ t.arg = id)}]

\* onclick="this.parentElement.remove()" of the close button of toast id.
ToastCloseClick(s, id) ==
    remove([s EXCEPT !.toasts[id].dismissed = TRUE, !.arg = id], id)


(***************************************************************************)
(* Numbers read from text: parseFloat, on a string given as its sequence   *)
(* of characters. The result is NaN or the decimal (-1)^neg * mant /       *)
(* 10^scale.                                                               *)
(***************************************************************************)
Digit == {"0", "1", "2", "3", "4", "5", "6", "7", "8", "9"}

DigitValue(c) ==
    CASE c = "0" -> 0 [] c = "1" -> 1 [] c = "2" -> 2 [] c = "3" -> 3
      [] c = "4" -> 4 [] c = "5" -> 5 [] c = "6" -> 6 [] c = "7" -> 7
      [] c = "8" -> 8 [] c = "9" -> 9

NaN == [nan |-> TRUE, neg |-> FALSE, mant |-> 0, scale |-> 0]

\* The first index at or after i that holds no white space.
RECURSIVE SkipWhiteSpace(_, _)
SkipWhiteSpace(str, i) ==
    IF i <= Len(str) /\ str[i] = " " THEN SkipWhiteSpace(str, i + 1) ELSE i

\* The first index at or after i that holds no digit.
RECURSIVE SkipDigits(_, _)
SkipDigits(str, i) ==
    IF i <= Len(str) /\ str[i] \in Digit THEN SkipDigits(str, i + 1) ELSE i

\* The number written by the digits str[i], ..., str[j - 1], after acc.
RECURSIVE DigitsValue(_, _, _, _)
DigitsValue(str, i, j, acc) ==
    IF i >= j THEN acc
    ELSE DigitsValue(str, i + 1, j, 10 * acc + DigitValue(str[i]))

\* The longest prefix of the trimmed string that is a decimal literal
\* (sign, digits, point, digits), or NaN when there is none.
parseFloat(str) ==
    LET i0 == SkipWhiteSpace(str, 1)
        signed == i0 <= Len(str) /\ str[i0] \in {"+", "-"}
        i1 == IF signed THEN i0 + 1 ELSE i0
        i2 == SkipDigits(str, i1)
        point == i2 <= Len(str) /\ str[i2] = "."
        i3 == IF point THEN SkipDigits(str, i2 + 1) ELSE i2
        frac == IF point THEN i3 - (i2 + 1) ELSE 0
    IN  IF (i2 - i1) + frac = 0 THEN NaN
        ELSE [nan |-> FALSE,
              neg |-> signed /\ str[i0] = "-",
              mant |-> DigitsValue(str, i2 + 1, i3,
                                   DigitsValue(str, i1, i2, 0)),
              scale |-> frac]

\* ToBoolean of a string and of a number: "", NaN, +0 and -0 are falsy.
TruthyString(str) == str # ""
TruthyNumber(n) == ~n.nan /\ n.mant # 0

(***************************************************************************)
(* Numbers written as text: toFixed(1) and toString, on the decimals that  *)
(* parseFloat reads and on their fractions n / d.                          *)
(***************************************************************************)
RECURSIVE Pow10(_)
Pow10(k) == IF k = 0 THEN 1 ELSE 10 * Pow10(k - 1)

DigitChars == <<"0", "1", "2", "3", "4", "5", "6", "7", "8", "9">>

\* The decimal digits of a natural number.
RECURSIVE NatChars(_)
NatChars(n) ==
    IF n < 10 THEN <<DigitChars[n + 1]>>
    ELSE NatChars(n \div 10) \o <<DigitChars[(n % 10) + 1]>>

\* The value of a number read by parseFloat, as the fraction n / d.
Fraction(x) ==
    [n |-> IF x.neg THEN 0 - x.mant ELSE x.mant, d |-> Pow10(x.scale)]

Abs(n) == IF n < 0 THEN 0 - n ELSE n

\* (n / d).toFixed(1): the tenths nearest to the magnitude, the larger of
\* two that are as near, after the sign.
toFixed1(q) ==
    LET tenths == (2 * 10 * Abs(q.n) + q.d) \div (2 * q.d)
    IN  (IF q.n < 0 THEN <<"-">> ELSE <<>>)
            \o NatChars(tenths \div 10) \o <<".">> \o NatChars(tenths % 10)

\* The digits of mant over scale places, without the zeros at the end.
RECURSIVE FractionChars(_, _)
FractionChars(mant, scale) ==
    IF scale = 0 \/ mant = 0 THEN <<>>
    ELSE <<DigitChars[(mant \div Pow10(scale - 1)) + 1]>>
             \o FractionChars(mant % Pow10(scale - 1), scale - 1)

\* x.toString() of a number read by parseFloat.
toString(x) ==
    LET whole == x.mant \div Pow10(x.scale)
        part == FractionChars(x.mant % Pow10(x.scale), x.scale)
    IN  IF x.nan THEN <<"N", "a", "N">>
        ELSE (IF x.neg /\ x.mant # 0 THEN <<"-">> ELSE <<>>)
                 \o NatChars(whole)
                 \o (IF part = <<>> THEN <<>> ELSE <<".">> \o part)

(***************************************************************************)
(* The stat animation.                                                     *)
(***************************************************************************)
\* update() of an animateNumber run, elapsed milliseconds after its start:
\* the text is set, and the callback is given to requestAnimationFrame
\* again unless the duration has passed.
update(s, run) ==
    LET first == Fraction(run.start)
        final == Fraction(run.end)
        \* start + range * progress, with progress = elapsed / duration
        current ==
            IF run.elapsed >= run.duration
            THEN [n |-> final.n, d |-> final.d]
            ELSE [n |-> first.n * final.d * run.duration
                          + (final.n * first.d - first.n * final.d)
                              * run.elapsed,
                  d |-> first.d * final.d * run.duration]
        s1 == [s EXCEPT !.stats[run.element] = toFixed1(current)]
    IN  IF run.elapsed < run.duration
        THEN [s1 EXCEPT !.frames = Append(@, run)]
        ELSE [s1 EXCEPT !.stats[run.element] = toString(run.end)]

animateNumber(s, element, start, end, duration) ==
    update(s, [element |-> element, start |-> start, end |-> end,
               duration |-> duration, elapsed |-> 0])

Zero == [nan |-> FALSE, neg |-> FALSE, mant |-> 0, scale |-> 0]

\* The forEach of animateStatNumbers, from element i on.
RECURSIVE AnimateStatsFrom(_, _)
AnimateStatsFrom(s, i) ==
    IF i > Len(s.stats) THEN s
    ELSE LET numericValue == parseFloat(s.stats[i])
         IN  AnimateStatsFrom(
                 IF ~numericValue.nan
                 THEN animateNumber(s, i, Zero, numericValue,
                                    AnimationDuration)
                 ELSE s,
                 i + 1)

animateStatNumbers(s) == AnimateStatsFrom(Effect(s, <<"animateStatNumbers">>), 1)

\* One animation frame: the callbacks requested before it run, in the order
\* of their requests.
RECURSIVE RunFrames(_, _)
RunFrames(s, runs) ==
    IF runs = <<>> THEN s ELSE RunFrames(update(s, Head(runs)), Tail(runs))

animationFrame(s) == RunFrames([s EXCEPT !.frames = <<>>], s.frames)

(***************************************************************************)
(* The location modal and its form.                                        *)
(***************************************************************************)
showModal(s) ==
    Effect([s EXCEPT !.modal = [visibility |-> "visible", opacity |-> "1"]],
           <<"showModal">>)

\* As hideModal, with the pending submissions of the form given up.
hideModalCancelling(s) ==
    Effect([s EXCEPT !.modal = [visibility |-> "hidden", opacity |-> "0"],
                     !.timers = {t \in @ : t.kind # "submit"}],
           <<"hideModal">>)

hideModal(s) ==
    Effect([s EXCEPT !.modal = [visibility |-> "hidden", opacity |-> "0"]],
           <<"hideModal">>)

\* The values of the fields in the markup, which form.reset() restores.
FormDefault ==
    [name |-> "", address |-> "", latitude |-> <<>>, longitude |-> <<>>,
     propertyType |-> "residential"]

resetForm(s) == Effect([s EXCEPT !.form = FormDefault], <<"resetForm">>)

\* As loadDashboardData, with the body of the callback run at once.
loadDashboardDataNow(s) ==
    animateStatNumbers(Effect(s, <<"loadDashboardData">>))

loadDashboardData(s) ==
    setTimeout(Effect(s, <<"loadDashboardData">>), "dashboard",
               DashboardDelay, 0)

DashboardCallback(s) == animateStatNumbers(s)

\* As submitLocationData, with the location posted through the API client.
\* (The client is defined below; its request is written out here.)
submitLocationDataPosting(s, data) ==
    LET s1 == setTimeout(showToast(s, "Adding location...", "info"),
                         "submit", SubmitDelay, 0)
        call == [endpoint |-> <<"/analyze">>,
                 url |-> <<s.api.baseURL, "/analyze">>,
                 config |-> [method |-> "POST"],
                 state |-> "fetching",
                 response |-> [status |-> 0, parseable |-> FALSE],
                 toastIds |-> {}]
    IN  Effect([s1 EXCEPT !.requests = Append(@, call)], <<"fetch">>)

submitLocationData(s, data) ==
    setTimeout(showToast(s, "Adding location...", "info"), "submit",
               SubmitDelay, 0)

SubmitCallback(s) ==
    loadDashboardData(
        resetForm(
            hideModal(
                showToast(s, "Location added successfully!", "success"))))

\* As handleLocationSubmission, without the return after the error toast.
handleLocationSubmissionNoReturn(s) ==
    LET formData == [name |-> s.form.name,
                     address |-> s.form.address,
                     latitude |-> parseFloat(s.form.latitude),
                     longitude |-> parseFloat(s.form.longitude),
                     propertyType |-> s.form.propertyType]
    IN  IF \/ ~TruthyString(formData.name)
           \/ ~TruthyNumber(formData.latitude)
           \/ ~TruthyNumber(formData.longitude)
        THEN submitLocationData(
                 showToast(s, "Please fill in all required fields", "error"),
                 formData)
        ELSE submitLocationData(s, formData)

\* As handleLocationSubmission, with the modal closed on a form that is
\* not filled in.
handleLocationSubmissionClosing(s) ==
    LET formData == [name |-> s.form.name,
                     address |-> s.form.address,
                     latitude |-> parseFloat(s.form.latitude),
                     longitude |-> parseFloat(s.form.longitude),
                     propertyType |-> s.form.propertyType]
    IN  IF \/ ~TruthyString(formData.name)
           \/ ~TruthyNumber(formData.latitude)
           \/ ~TruthyNumber(formData.longitude)
        THEN hideModal(
                 showToast(s, "Please fill in all required fields", "error"))
        ELSE submitLocationData(s, formData)

handleLocationSubmission(s) ==
    LET formData == [name |-> s.form.name,
                     address |-> s.form.address,
                     latitude |-> parseFloat(s.form.latitude),
                     longitude |-> parseFloat(s.form.longitude),
                     propertyType |-> s.form.propertyType]
    IN  IF \/ ~TruthyString(formData.name)
           \/ ~TruthyNumber(formData.latitude)
           \/ ~TruthyNumber(formData.longitude)
        THEN showToast(s, "Please fill in all required fields", "error")
        ELSE submitLocationData(s, formData)

checkForNotifications(s) == Effect(s, <<"checkForNotifications">>)

(***************************************************************************)
(* The action cards and the simulated flows. The page's function           *)
(* startAnalysis is written startAnalysisFlow: the name startAnalysis is   *)
(* the method of the API client.                                           *)
(***************************************************************************)
startAnalysisFlow(s) ==
    setTimeout(showToast(s, "Starting climate analysis...", "info"),
               "analysis", AnalysisDelay, 0)

generateReport(s) ==
    setTimeout(showToast(s, "Generating climate report...", "info"),
               "report", ReportDelay, 0)

createEmergencyPlan(s) ==
    setTimeout(showToast(s, "Creating emergency plan...", "info"),
               "emergency", EmergencyDelay, 0)

showDemo(s) ==
    setTimeout(showToast(s, "Loading demo...", "info"), "demo", DemoDelay, 0)

\* The callbacks of the four timers above, by the kind of the timer.
FlowCallback(s, kind) ==
    CASE kind = "analysis" -> showToast(s, "Analysis completed!", "success")
      [] kind = "report" ->
            showToast(s, "Report generated successfully!", "success")
      [] kind = "emergency" ->
            showToast(s, "Emergency plan created!", "success")
      [] kind = "demo" -> showToast(s, "Demo ready!", "success")

\* As handleActionCardClick, with the break of case 'analysis' missing.
handleActionCardClickFallThrough(s, action) ==
    CASE action = "location" -> showModal(s)
      [] action = "analysis" -> generateReport(startAnalysisFlow(s))
      [] action = "report" -> generateReport(s)
      [] action = "emergency" -> createEmergencyPlan(s)
      [] OTHER -> Effect(s, <<"console.log", "Unknown action:">>)

handleActionCardClick(s, action) ==
    CASE action = "location" -> showModal(s)
      [] action = "analysis" -> startAnalysisFlow(s)
      [] action = "report" -> generateReport(s)
      [] action = "emergency" -> createEmergencyPlan(s)
      [] OTHER -> Effect(s, <<"console.log", "Unknown action:">>)

(***************************************************************************)
(* The API client. An object is a function from its keys; the spread       *)
(* {...a, ...b} is b @@ a (the keys of b win).                             *)
(***************************************************************************)
EmptyObject == [k \in {} |-> ""]

\* ToBoolean of this.token: null and "" are falsy.
TruthyToken(token) == token # Null /\ token # ""

\* `Bearer ${token}`: the pieces of the template literal.
Bearer(token) == <<"Bearer ", token>>

\* new ClimateAPI(), with localStorage holding stored under auth_token.
ClimateAPI(stored) == [baseURL |-> "/api/v1", token |-> stored]

RequestHeaders(client) ==
    (IF TruthyToken(client.token)
        THEN "Authorization" :> Bearer(client.token)
        ELSE EmptyObject)
    @@ ("Content-Type" :> <<"application/json">>)

RequestConfig(client, options) ==
    options @@ ("headers" :> RequestHeaders(client))

\* request(endpoint, options) up to its first await: fetch is called.
request(s, endpoint, options) ==
    LET call == [endpoint |-> endpoint,
                 url |-> <<s.api.baseURL>> \o endpoint,
                 config |-> RequestConfig(s.api, options),
                 state |-> "fetching",
                 response |-> [status |-> 0, parseable |-> FALSE],
                 toastIds |-> {}]
    IN  Effect([s EXCEPT !.requests = Append(@, call)], <<"fetch">>)

\* The catch block of request number i: the toast, and the error thrown on.
RequestCatch(s, i) ==
    LET s1 == showToast(Effect(s, <<"console.error">>),
                        "API request failed", "error")
    IN  [s1 EXCEPT !.requests[i].state = "thrown",
                   !.requests[i].toastIds =
                       @ \cup ((Len(s.toasts) + 1)..Len(s1.toasts))]

ResponseOk(response) == response.status >= 200 /\ response.status <= 299

\* As RequestAfterFetch, without the test of response.ok.
RequestAfterFetchAnyStatus(s, i, rejected, response) ==
    IF rejected THEN RequestCatch(s, i)
    ELSE [s EXCEPT !.requests[i].response = response,
                   !.requests[i].state = "parsing"]

\* request number i after fetch: the promise is rejected (the network
\* fails), or fulfilled with a response.
RequestAfterFetch(s, i, rejected, response) ==
    IF rejected THEN RequestCatch(s, i)
    ELSE IF ~ResponseOk(response)
         THEN RequestCatch([s EXCEPT !.requests[i].response = response], i)
    ELSE [s EXCEPT !.requests[i].response = response,
                   !.requests[i].state = "parsing"]

\* request number i after response.json().
RequestAfterJson(s, i) ==
    IF s.requests[i].response.parseable
    THEN [s EXCEPT !.requests[i].state = "returned"]
    ELSE RequestCatch(s, i)

getClimateData(s, location) ==
    request(s, <<"/climate/data?lat=", location.lat, "&lng=", location.lng>>,
            EmptyObject)

startAnalysis(s, locationData) ==
    request(s, <<"/analyze">>,
            ("method" :> "POST") @@ ("body" :> locationData))

getRecommendations(s, analysisId) ==
    request(s, <<"/recommendations/", analysisId>>, EmptyObject)

(***************************************************************************)
(* Dates: the local calendar day of a Date, and Date.setDate.              *)
(***************************************************************************)
IsLeapYear(y) == (y % 4 = 0 /\ y % 100 # 0) \/ y % 400 = 0

DaysInMonth(y, m) ==
    IF m = 1 THEN (IF IsLeapYear(y) THEN 29 ELSE 28)
    ELSE IF m \in {3, 5, 8, 10} THEN 30
    ELSE 31

\* MakeDay: a day of the month below 1 or above the length of the month
\* counts into the months before or after.
RECURSIVE MakeDay(_, _, _)
MakeDay(y, m, d) ==
    IF d < 1
    THEN LET py == IF m = 0 THEN y - 1 ELSE y
             pm == IF m = 0 THEN 11 ELSE m - 1
         IN  MakeDay(py, pm, d + DaysInMonth(py, pm))
    ELSE IF d > DaysInMonth(y, m)
    THEN LET ny == IF m = 11 THEN y + 1 ELSE y
             nm == IF m = 11 THEN 0 ELSE m + 1
         IN  MakeDay(ny, nm, d - DaysInMonth(y, m))
    ELSE [y |-> y, m |-> m, d |-> d]

\* date.setDate(d)
setDate(date, d) == MakeDay(date.y, date.m, d)

MonthShort ==
    <<"Jan", "Feb", "Mar", "Apr", "May", "Jun",
      "Jul", "Aug", "Sep", "Oct", "Nov", "Dec">>

\* date.toLocaleDateString('en-US', { month: 'short', day: 'numeric' }):
\* the month's short name and the day, without the year.
toLocaleDateString(date) == [month |-> MonthShort[date.m + 1], day |-> date.d]

(***************************************************************************)
(* The temperature chart.                                                  *)
(***************************************************************************)
\* As generateDateLabels, with the loop from i = days down to 1.
generateDateLabelsFromDays(days, now) ==
    [k \in 1..days |->
        toLocaleDateString(setDate(now, now.d - (days - k) - 1))]

\* The k-th label pushed by the loop of generateDateLabels is that of
\* i = days - k.
generateDateLabels(days, now) ==
    [k \in 1..days |->
        toLocaleDateString(setDate(now, now.d - (days - k)))]

\* Math.random: a generator with a hidden state; the number drawn is
\* state / RandomModulus, in [0, 1).
RandomModulus == 8
RandomNext(state) == (5 * state + 3) % RandomModulus

\* baseTemp + (Math.random() - 0.5) * 8, in tenths of a degree.
Temperature(state) == 245 + (state * 80) \div RandomModulus - 40

RECURSIVE RandomSteps(_, _)
RandomSteps(state, k) ==
    IF k = 0 THEN state ELSE RandomSteps(RandomNext(state), k - 1)

\* The state of the generator after k draws; it is back in its state after
\* every RandomModulus draws.
RandomAfter(state, k) == RandomSteps(state, k % RandomModulus)

\* The loop of generateTemperatureData: element i is drawn after i earlier
\* draws; the result holds the data and the state the generator is left in.
generateTemperatureData(days, state) ==
    [data |-> [k \in 1..days |-> Temperature(RandomAfter(state, k - 1))],
     rng |-> RandomAfter(state, days)]

NoChart == [exists |-> FALSE, labels |-> <<>>, data |-> <<>>]

\* new Chart(ctx, ...) of initializeCharts, when the page holds the canvas.
initializeCharts(s) ==
    LET generated == generateTemperatureData(30, s.rng)
        s1 == Effect(s, <<"initializeCharts">>)
    IN  IF s.canvas
        THEN [s1 EXCEPT !.chart = [exists |-> TRUE,
                                   labels |-> generateDateLabels(30, s.today),
                                   data |-> generated.data],
                        !.rng = generated.rng]
        ELSE s1

\* As RangeDays, with the break of case '90d' missing.
RangeDaysFallThrough(timeRange) ==
    CASE timeRange = "7d" -> 7
      [] timeRange = "30d" -> 30
      [] timeRange = "90d" -> 365
      [] timeRange = "1y" -> 365
      [] OTHER -> 30

RangeDays(timeRange) ==
    CASE timeRange = "7d" -> 7
      [] timeRange = "30d" -> 30
      [] timeRange = "90d" -> 90
      [] timeRange = "1y" -> 365
      [] OTHER -> 30

updateChartData(s, timeRange) ==
    LET days == RangeDays(timeRange)
        generated == generateTemperatureData(days, s.rng)
        s1 == [s EXCEPT !.lastRange = timeRange]
    IN  IF s.chart.exists
        THEN Effect([s1 EXCEPT !.chart.labels = generateDateLabels(days, s.today),
                               !.chart.data = generated.data,
                               !.rng = generated.rng],
                    <<"chart.update">>)
        ELSE s1

(***************************************************************************)
(* The navigation, the search overlay and the clicks on the document.      *)
(***************************************************************************)
\* The href of the .nav-link elements, in document order.
NavLinks == <<"#dashboard", "#analysis", "#reports">>

\* As NavLinkClick, without the removal of the class from all links.
NavLinkClickKeeping(s, link) ==
    Effect([s EXCEPT !.navActive = @ \cup {link}],
           <<"navigateToSection", NavLinks[link]>>)

\* The click listener of a .nav-link: the class active is removed from all
\* links and added to this one, and navigateToSection gets its href.
NavLinkClick(s, link) ==
    LET removed == [s EXCEPT !.navActive = {}]
        added == [removed EXCEPT !.navActive = @ \cup {link}]
    IN  Effect(added, <<"navigateToSection", NavLinks[link]>>)

MobileToggleClick(s) == [s EXCEPT !.navMenu = ~@]

showUserMenu(s) == Effect(s, <<"console.log", "Showing user menu">>)

\* The click listener of #search-btn.
SearchOpen(s) ==
    [s EXCEPT !.search = [visibility |-> "visible", opacity |-> "1"],
              !.focus = "global-search"]

\* The click listener of #search-close.
SearchClose(s) ==
    [s EXCEPT !.search = [visibility |-> "hidden", opacity |-> "0"]]

\* As SearchKeydown, without the test of the overlay's visibility.
SearchKeydownAnyState(s, key) ==
    IF key = "Escape"
    THEN [s EXCEPT !.search = [visibility |-> "hidden", opacity |-> "0"]]
    ELSE s

\* The keydown listener of the document.
SearchKeydown(s, key) ==
    IF key = "Escape" /\ s.search.visibility = "visible"
    THEN [s EXCEPT !.search = [visibility |-> "hidden", opacity |-> "0"]]
    ELSE s

\* String.prototype.trim, for the white space " ".
RECURSIVE TrimStart(_)
TrimStart(str) ==
    IF str # <<>> /\ Head(str) = " " THEN TrimStart(Tail(str)) ELSE str

RECURSIVE TrimEnd(_)
TrimEnd(str) ==
    IF str # <<>> /\ str[Len(str)] = " "
    THEN TrimEnd(SubSeq(str, 1, Len(str) - 1))
    ELSE str

trim(str) == TrimEnd(TrimStart(str))

performSearch(s, text) == Effect(s, <<"performSearch", text>>)

\* The input listener of #global-search, the value being the new text.
SearchInputChange(s, value) ==
    LET s1 == [s EXCEPT !.query = value]
    IN  IF Len(trim(value)) > 2 THEN performSearch(s1, trim(value)) ELSE s1

\* The elements of class modal-overlay: the page holds one, the location
\* modal.
HasModalOverlayClass(target) == target = "location-modal"

\* As DocumentClickListener, for any target within the modal.
DocumentClickListenerWithin(s, target) ==
    IF target \in {"location-modal", "modal-content", "location-name"}
    THEN hideModal(s)
    ELSE s

\* The click listener of the document (initializeModals): a target of
\* class modal-overlay is hidden. The page holds one such element, the
\* location modal.
DocumentClickListener(s, target) ==
    IF HasModalOverlayClass(target) THEN hideModal(s) ELSE s

(***************************************************************************)
(* Bootstrap.                                                              *)
(***************************************************************************)
initializeNotifications(s) ==
    setInterval(Effect(s, <<"initializeNotifications">>), "poll", PollInterval)

initializeApp(s) ==
    LET s1 == Effect(s, <<"initializeNavigation">>)
        s2 == Effect(s1, <<"initializeSearch">>)
        s3 == Effect(s2, <<"initializeModals">>)
        s4 == initializeCharts(s3)
        s5 == Effect(s4, <<"initializeMap">>)
        s6 == Effect(s5, <<"initializeActionCards">>)
        s7 == initializeNotifications(s6)
    IN  loadDashboardData([s7 EXCEPT !.initialized = TRUE])

(***************************************************************************)
(* Actions.                                                                *)
(***************************************************************************)
\* 3 Jan 2024, 1 Mar 2024, 1 Mar 2023, 31 Dec 2024, 29 Feb 2000, 15 Jul 2100
TodayValues ==
    { [y |-> 2024, m |-> 0, d |-> 3], [y |-> 2024, m |-> 2, d |-> 1],
      [y |-> 2023, m |-> 2, d |-> 1], [y |-> 2024, m |-> 11, d |-> 31],
      [y |-> 2000, m |-> 1, d |-> 29], [y |-> 2100, m |-> 6, d |-> 15] }

\* The .stat-number elements of the page: "42", "8.5", "N/A"
StatValues == << <<"4", "2">>, <<"8", ".", "5">>, <<"N", "/", "A">> >>

TokenValues == {Null, "", "tok-1"}

Severities == {"info", "success", "error"}

\* window.ClimateApp.showToast(message, type), called by another module.
ShowToastCall ==
    \E type \in Severities :
        /\ Len(toasts) < MaxToasts
        /\ Become(showToast(Cur("showToast"), "Hello", type))

DismissClick ==
    \E id \in 1..Len(toasts) :
        /\ Become(ToastCloseClick(Cur("dismiss"), id))

ToastTimeout ==
    \E t \in timers :
        /\ t.kind = "toast"
        /\ Due(t)
        /\ Become(ToastTimeoutCallback(
               TimerDone([Cur("toastTimeout") EXCEPT !.arg = t.arg], t), t))

\* DOMContentLoaded.
InitializeApp ==
    /\ ~initialized
    /\ Become(initializeApp(Cur("initializeApp")))

NameInputs == {"", "Home"}

\* "", "abc", "0", "25.77"
LatitudeInputs ==
    { <<>>, <<"a", "b", "c">>, <<"0">>, <<"2", "5", ".", "7", "7">> }

\* "1e", "-0.0", "-80.19"
LongitudeInputs ==
    { <<"1", "e">>, <<"-", "0", ".", "0">>,
      <<"-", "8", "0", ".", "1", "9">> }

\* The user types into a field of the form.
FormInput ==
    \E f \in {"name", "latitude", "longitude"} :
        \E v \in (CASE f = "name" -> NameInputs
                     [] f = "latitude" -> LatitudeInputs
                     [] f = "longitude" -> LongitudeInputs) :
            /\ initialized
            /\ form[f] # v
            /\ Become([Cur("input") EXCEPT !.form[f] = v])

\* The browser fills the fields of the form in, all at once.
FormAutofill ==
    /\ initialized
    /\ form = FormDefault
    /\ Become([Cur("autofill") EXCEPT
           !.form = [name |-> "Home", address |-> "",
                     latitude |-> <<"2", "5", ".", "7", "7">>,
                     longitude |-> <<"-", "8", "0", ".", "1", "9">>,
                     propertyType |-> "residential"]])

SubmitCount ==
    Cardinality({i \in 1..Len(toasts) :
        toasts[i].message \in {"Please fill in all required fields",
                               "Adding location..."}})

\* The submit event of .location-form.
SubmitForm ==
    /\ initialized
    /\ SubmitCount < MaxSubmits
    /\ Become(handleLocationSubmission(Cur("submit")))

\* A click on #start-analysis.
StartAnalysisClick ==
    /\ initialized
    /\ Become(showModal(Cur("startAnalysisClick")))

CloseControls == <<"close-location-modal", "cancel-location">>

\* A click on #close-location-modal or on #cancel-location; arg is the
\* index of the control.
CloseModalClick ==
    \E k \in DOMAIN CloseControls :
        /\ initialized
        /\ Become(hideModal([Cur("closeModalClick") EXCEPT !.arg = k]))

SubmitTimeout ==
    \E t \in timers :
        /\ t.kind = "submit"
        /\ Due(t)
        /\ Become(SubmitCallback(TimerDone(Cur("submitTimeout"), t)))

DashboardTimeout ==
    \E t \in timers :
        /\ t.kind = "dashboard"
        /\ Due(t)
        /\ Become(DashboardCallback(TimerDone(Cur("dashboardTimeout"), t)))

PollTimeout ==
    \E t \in timers :
        /\ t.kind = "poll"
        /\ Due(t)
        /\ Become(checkForNotifications(TimerAgain(Cur("pollTimeout"), t)))

\* Options a caller of request may pass.
OptionValues ==
    { EmptyObject,
      "headers" :> ("X-Trace" :> <<"1">>) }

\* window.ClimateApp.api.request(endpoint, options), called by another module.
ApiRequest ==
    \E options \in OptionValues :
        /\ Len(requests) < MaxRequests
        /\ Become(request(Cur("request"), <<"/status">>, options))

ApiGetClimateData ==
    /\ Len(requests) < MaxRequests
    /\ Become(getClimateData(Cur("getClimateData"),
                             [lat |-> "25.77", lng |-> "-80.19"]))

ApiStartAnalysis ==
    /\ Len(requests) < MaxRequests
    /\ Become(startAnalysis(Cur("startAnalysis"), "{name:Home}"))

ApiGetRecommendations ==
    /\ Len(requests) < MaxRequests
    /\ Become(getRecommendations(Cur("getRecommendations"), "42"))

StatusValues == {200, 404}

\* The promise of fetch settles.
FetchSettles ==
    \E i \in 1..Len(requests) :
        /\ requests[i].state = "fetching"
        /\ \/ Become(RequestAfterFetch(
                  [Cur("fetchRejected") EXCEPT !.arg = i], i, TRUE,
                  [status |-> 0, parseable |-> FALSE]))
           \/ \E status \in StatusValues, parseable \in BOOLEAN :
                  Become(RequestAfterFetch(
                      [Cur("fetchFulfilled") EXCEPT !.arg = i], i, FALSE,
                      [status |-> status, parseable |-> parseable]))

\* The promise of response.json() settles.
JsonSettles ==
    \E i \in 1..Len(requests) :
        /\ requests[i].state = "parsing"
        /\ Become(RequestAfterJson([Cur("jsonSettled") EXCEPT !.arg = i], i))

\* Another script writes or removes localStorage's auth_token.
StorageWrite ==
    \E v \in TokenValues :
        /\ storage # v
        /\ Become([Cur("storageWrite") EXCEPT !.storage = v])

RangeTokens == {"7d", "30d", "90d", "1y", "all"}

\* The change event of .time-selector.
TimeSelectorChange ==
    \E timeRange \in RangeTokens :
        /\ initialized
        /\ Become(updateChartData(Cur("timeSelectorChange"), timeRange))

\* The local day changes.
Midnight ==
    /\ nights < MaxNights
    /\ Become([Cur("midnight") EXCEPT !.today = setDate(today, today.d + 1),
                                      !.nights = @ + 1])

\* The browser runs an animation frame.
AnimationFrame ==
    /\ frames # <<>>
    /\ Become(animationFrame(Cur("animationFrame")))

\* ms milliseconds pass.
ElapseBy(s, ms) ==
    [s EXCEPT !.timers = {[t EXCEPT !.left = @ - ms] : t \in s.timers},
              !.frames = [i \in 1..Len(s.frames) |->
                             [s.frames[i] EXCEPT
                                 !.elapsed = Min(@ + ms, s.frames[i].duration)]],
              !.toasts = [i \in 1..Len(s.toasts) |->
                             [s.toasts[i] EXCEPT
                                 !.age = Min(@ + ms, ToastTTL)]]]

\* Time passes: one step of TickMs, once every timer that is due has run.
Elapse(s) == ElapseBy(s, TickMs)

\* The least of a non-empty set of numbers.
Least(S) == CHOOSE n \in S : \A m \in S : n <= m

\* Nothing happens until the next timer is due.
Idle ==
    /\ timers # {}
    /\ \A t \in timers : t.left > 0
    /\ Become(ElapseBy(Cur("idle"), Least({t.left : t \in timers})))

Tick ==
    /\ \A t \in timers : t.left > 0
    /\ timers # {} \/ frames # <<>>
    /\ Become(Elapse(Cur("tick")))

\* Time passes, within the first MaxTicks steps after the bootstrap.
TickEarly ==
    /\ \A t \in timers : t.left > 0
    /\ \A t \in timers :
           t.kind = "poll" => t.delay - t.left < MaxTicks * TickMs
    /\ timers # {}
    /\ Become(Elapse(Cur("tick")))

\* The numbers 0 and 10; 42, 8.5, 8.46, -3 and 0
StartValues == {Zero, parseFloat(<<"1", "0">>)}
EndValues ==
    { parseFloat(<<"4", "2">>), parseFloat(<<"8", ".", "5">>),
      parseFloat(<<"8", ".", "4", "6">>), parseFloat(<<"-", "3">>), Zero }

\* The milliseconds between two animation frames.
FrameDelays == {1, 16, 500}

\* animateNumber(element, start, end, duration), called on the loaded page.
AnimateNumberCall ==
    \E element \in DOMAIN stats, start \in StartValues, end \in EndValues :
        /\ last.event = "load"
        /\ Become(animateNumber(
               Effect(Cur("animateNumber"),
                      <<"animateNumber", element, start, end,
                        AnimationDuration>>),
               element, start, end, AnimationDuration))

\* The browser runs an animation frame, some milliseconds after the frame
\* or the call before it.
FrameAfter ==
    \E ms \in FrameDelays :
        /\ frames # <<>>
        /\ \A t \in timers : t.left >= ms
        /\ Become(animationFrame(
               ElapseBy([Cur("animationFrame") EXCEPT !.arg = ms], ms)))

\* The data-action values of the cards: the four of the switch, one other.
ActionValues == <<"location", "analysis", "report", "emergency", "share">>

FlowKinds == {"analysis", "report", "emergency", "demo"}

FlowCount ==
    Cardinality({i \in 1..Len(toasts) :
        toasts[i].message \in {"Starting climate analysis...",
                               "Generating climate report...",
                               "Creating emergency plan...",
                               "Loading demo..."}})

\* A click on an .action-card; arg is the index of its data-action.
ActionCardClick ==
    \E a \in DOMAIN ActionValues :
        /\ initialized
        /\ ActionValues[a] \in FlowKinds => FlowCount < MaxFlows
        /\ Become(handleActionCardClick(
               [Cur("actionCardClick") EXCEPT !.arg = a], ActionValues[a]))

\* A click on #view-demo.
DemoClick ==
    /\ initialized
    /\ FlowCount < MaxFlows
    /\ Become(showDemo(Cur("demoClick")))

\* The timer of a simulated flow fires.
FlowTimeout ==
    \E t \in timers :
        /\ t.kind \in FlowKinds
        /\ Due(t)
        /\ Become(FlowCallback(TimerDone(Cur("flowTimeout"), t), t.kind))

\* A click on a .nav-link; arg is the index of the link.
NavClick ==
    \E link \in DOMAIN NavLinks :
        /\ initialized
        /\ Become(NavLinkClick([Cur("navClick") EXCEPT !.arg = link], link))

\* A click on #mobile-toggle.
MobileToggle ==
    /\ initialized
    /\ Become(MobileToggleClick(Cur("mobileToggle")))

\* A click on #user-profile.
UserProfileClick ==
    /\ initialized
    /\ Become(showUserMenu(Cur("userProfileClick")))

\* A click on #search-btn.
SearchBtnClick ==
    /\ initialized
    /\ Become(SearchOpen(Cur("searchBtnClick")))

\* A click on #search-close.
SearchCloseClick ==
    /\ initialized
    /\ Become(SearchClose(Cur("searchCloseClick")))

KeyValues == <<"Escape", "Enter", "a">>

\* A key is pressed; arg is the index of the key.
Keydown ==
    \E k \in DOMAIN KeyValues :
        /\ initialized
        /\ Become(SearchKeydown([Cur("keydown") EXCEPT !.arg = k],
                                KeyValues[k]))

\* "", "ab", " ab ", "miami"
QueryValues ==
    { <<>>, <<"a", "b">>, <<" ", "a", "b", " ">>,
      <<"m", "i", "a", "m", "i">> }

\* The user changes the text of #global-search.
SearchInput ==
    \E value \in QueryValues :
        /\ initialized
        /\ query # value
        /\ Become(SearchInputChange(Cur("searchInput"), value))

TargetValues ==
    <<"location-modal", "modal-content", "location-name", "search-overlay",
      "global-search", "main">>

\* A click on an element that has no click listener of its own; arg is
\* the index of the target.
DocumentClick ==
    \E k \in DOMAIN TargetValues :
        /\ initialized
        /\ Become(DocumentClickListener(
               [Cur("documentClick") EXCEPT !.arg = k], TargetValues[k]))

Init ==
    /\ toasts = <<>>
    /\ container = <<>>
    /\ timers = {}
    /\ timerCount = 0
    /\ faults = 0
    /\ initialized = FALSE
    /\ form = FormDefault
    /\ modal = [visibility |-> "", opacity |-> ""]
    /\ storage \in TokenValues
    /\ api = ClimateAPI(storage)
    /\ requests = <<>>
    /\ canvas \in BOOLEAN
    /\ chart = NoChart
    /\ lastRange = "none"
    /\ today \in TodayValues
    /\ nights = 0
    /\ rng \in 0..(RandomModulus - 1)
    /\ stats = StatValues
    /\ frames = <<>>
    /\ search = [visibility |-> "", opacity |-> ""]
    /\ focus = "body"
    /\ query = <<>>
    /\ navActive \in {{}, {1}}
    /\ navMenu = FALSE
    /\ last = [event |-> "load", arg |-> 0, effects |-> <<>>]

\* The page of the dashboard on one day, with nothing stored.
InitPage ==
    /\ Init
    /\ storage = Null
    /\ canvas
    /\ today = [y |-> 2024, m |-> 2, d |-> 1]
    /\ rng = 0
    /\ navActive = {1}

NextToast == ShowToastCall \/ DismissClick \/ ToastTimeout \/ Tick

SpecToast == InitPage /\ [][NextToast]_vars

NextForm ==
    \/ InitializeApp
    \/ FormInput
    \/ SubmitForm
    \/ StartAnalysisClick
    \/ SubmitTimeout
    \/ DashboardTimeout
    \/ ToastTimeout
    \/ TickEarly

NextApi ==
    \/ ApiRequest
    \/ ApiGetClimateData
    \/ ApiStartAnalysis
    \/ ApiGetRecommendations
    \/ FetchSettles
    \/ JsonSettles
    \/ StorageWrite
    \/ ToastTimeout
    \/ Tick

InitApi ==
    /\ Init
    /\ canvas
    /\ today = [y |-> 2024, m |-> 2, d |-> 1]
    /\ rng = 0
    /\ navActive = {1}

SpecApi == InitApi /\ [][NextApi]_vars

NextChart ==
    \/ InitializeApp
    \/ TimeSelectorChange
    \/ Midnight

InitChart == Init /\ storage = Null /\ navActive = {1}

SpecChart == InitChart /\ [][NextChart]_vars

SpecForm == InitPage /\ [][NextForm]_vars

NextAnim == AnimateNumberCall \/ FrameAfter

SpecAnim == InitPage /\ [][NextAnim]_vars

NextCards ==
    \/ InitializeApp
    \/ ActionCardClick
    \/ DemoClick
    \/ FlowTimeout
    \/ DashboardTimeout
    \/ ToastTimeout
    \/ TickEarly

SpecCards == InitPage /\ [][NextCards]_vars

NextBoot ==
    \/ InitializeApp
    \/ DashboardTimeout
    \/ AnimationFrame
    \/ PollTimeout
    \/ Tick

SpecBoot == InitPage /\ [][NextBoot]_vars

\* The poll is due within MaxLead steps of time, and fewer than MaxFlows
\* toasts and requests were made.
PollNear ==
    /\ \E t \in timers : t.kind = "poll" /\ t.left <= MaxLead * TickMs
    /\ Len(toasts) + Len(requests) < MaxFlows

NextPoll ==
    \/ InitializeApp
    \/ PollTimeout
    \/ DashboardTimeout
    \/ PollNear /\ FormAutofill
    \/ PollNear /\ SubmitForm
    \/ SubmitTimeout
    \/ PollNear /\ ActionCardClick
    \/ FlowTimeout
    \/ PollNear /\ ApiGetClimateData
    \/ FetchSettles
    \/ JsonSettles
    \/ ToastTimeout
    \/ Tick

\* The page is loaded and no callback of a one-shot timer is waiting to
\* run.
CallbacksRun ==
    /\ initialized
    /\ \A t \in timers : t.left = 0 => t.kind = "poll"

\* The event loop: the page gets its DOMContentLoaded event and the
\* callback of a timer that is due does not wait for ever; the callback of
\* the poll runs when it is due; time passes.
FairPoll ==
    /\ []<>CallbacksRun
    /\ WF_vars(PollTimeout)
    /\ WF_vars(Tick)

SpecPoll == InitPage /\ [][NextPoll]_vars /\ FairPoll

InitPanels ==
    /\ Init
    /\ storage = Null
    /\ canvas
    /\ today = [y |-> 2024, m |-> 2, d |-> 1]
    /\ rng = 0

NextPanels ==
    \/ InitializeApp
    \/ NavClick
    \/ MobileToggle
    \/ UserProfileClick
    \/ SearchBtnClick
    \/ SearchCloseClick
    \/ Keydown
    \/ SearchInput
    \/ DocumentClick
    \/ StartAnalysisClick
    \/ CloseModalClick

SpecPanels == InitPanels /\ [][NextPanels]_vars

ApiCall ==
    ApiRequest \/ ApiGetClimateData \/ ApiStartAnalysis \/ ApiGetRecommendations

\* Fewer than MaxSubmits toasts and requests were made; the range of the
\* chart changes once, before them.
UiQuiet == Len(toasts) + Len(requests) < MaxSubmits

NextUi ==
    \/ InitializeApp
    \/ FormAutofill
    \/ UiQuiet /\ SubmitForm
    \/ SubmitTimeout
    \/ UiQuiet /\ ActionCardClick
    \/ UiQuiet /\ DemoClick
    \/ FlowTimeout
    \/ UiQuiet /\ lastRange = "none" /\ TimeSelectorChange
    \/ SearchInput
    \/ DashboardTimeout
    \/ PollTimeout
    \/ ToastTimeout
    \/ UiQuiet /\ ApiCall
    \/ Idle

SpecUi == InitPage /\ [][NextUi]_vars

\* A further submit event of .location-form, after the first one.
SubmitFormAgain ==
    /\ initialized
    /\ SubmitCount >= 1
    /\ SubmitCount < MaxFlows
    /\ Become(handleLocationSubmission(Cur("submit")))

\* The user acts within MaxLead steps of time after the bootstrap or after
\* a poll.
PollPast ==
    \E t \in timers : t.kind = "poll" /\ t.delay - t.left <= MaxLead * TickMs

NextSubmit ==
    \/ InitializeApp
    \/ PollPast /\ FormAutofill
    \/ PollPast /\ SubmitForm
    \/ PollPast /\ SubmitFormAgain
    \/ StartAnalysisClick
    \/ CloseModalClick
    \/ SubmitTimeout
    \/ DashboardTimeout
    \/ ToastTimeout
    \/ PollTimeout
    \/ Tick

SpecSubmit == InitPage /\ [][NextSubmit]_vars /\ FairPoll

NextReload ==
    \/ InitializeApp
    \/ FormAutofill
    \/ SubmitForm
    \/ SubmitFormAgain
    \/ SubmitTimeout
    \/ DashboardTimeout
    \/ AnimationFrame
    \/ ToastTimeout
    \/ TickEarly

SpecReload == InitPage /\ [][NextReload]_vars

\* Fewer than MaxFlows submissions, flows, requests and range changes were
\* made.
FailQuiet ==
    SubmitCount + FlowCount + Len(requests)
        + (IF lastRange = "none" THEN 0 ELSE 1) < MaxFlows

\* A failure was shown last: the toast made last is an error toast.
AfterFailure == toasts # <<>> /\ toasts[Len(toasts)].type = "error"

NextFail ==
    \/ InitializeApp
    \/ FormAutofill
    \/ FailQuiet /\ SubmitForm
    \/ AfterFailure /\ FailQuiet /\ SubmitFormAgain
    \/ SubmitTimeout
    \/ AfterFailure /\ FailQuiet /\ ActionCardClick
    \/ FlowTimeout
    \/ AfterFailure /\ FailQuiet /\ lastRange = "none" /\ TimeSelectorChange
    \/ FailQuiet /\ ApiGetClimateData
    \/ FetchSettles
    \/ JsonSettles
    \/ DashboardTimeout
    \/ PollTimeout
    \/ ToastTimeout
    \/ Idle

SpecFail == InitPage /\ [][NextFail]_vars

\* The whole page.
Next ==
    \/ NextToast
    \/ NextForm
    \/ NextApi
    \/ NextChart
    \/ CloseModalClick
    \/ PollTimeout
    \/ AnimationFrame
    \/ NextAnim
    \/ NextUi
    \/ NextPanels
    \/ FormAutofill
    \/ NextPoll
    \/ NextBoot
    \/ NextCards
    \/ NextSubmit
    \/ NextReload
    \/ NextFail

Spec == Init /\ [][Next]_vars

(***************************************************************************)
(* The toast container.                                                    *)
(***************************************************************************)
Shown(id) == \E i \in 1..Len(container) : container[i] = id

ToastTimers(id) == {t \in timers : t.kind = "toast" /\ t.arg = id}

TimerPending(id) == ToastTimers(id) # {}

\* C1: a toast that was not dismissed is in the container from its push
\* until its own timer runs, 5000 ms after the push; once the timer has run
\* the toast is absent; a dismissed toast is absent at once; nothing else
\* removes a toast.
ToastLifecycle ==
    \A id \in 1..Len(toasts) :
        /\ (~toasts[id].dismissed /\ TimerPending(id)) => Shown(id)
        /\ ~TimerPending(id) => (~Shown(id) /\ toasts[id].age = ToastTTL)
        /\ toasts[id].dismissed => ~Shown(id)
        /\ \A t \in ToastTimers(id) : t.left = ToastTTL - toasts[id].age
        /\ Cardinality({i \in 1..Len(container) : container[i] = id}) <= 1

\* One toast was removed by its timer and another by its close button.
ToastLifecycleWitness ==
    \E id \in 1..Len(toasts), other \in 1..Len(toasts) :
        /\ ~toasts[id].dismissed /\ ~TimerPending(id) /\ ~Shown(id)
        /\ toasts[other].dismissed /\ TimerPending(other)

\* C2: a toast that has left the container stays out of it; the expiry of
\* the timer of a toast that is no longer in the container, and a click on
\* the close button of such a toast, change neither the container nor any
\* other toast nor any other timer, and raise no error.
ToastLeavesOnce ==
    [][\A id \in 1..Len(toasts) :
          /\ ~Shown(id) => ~Shown(id)'
          /\ ( /\ last'.event \in {"toastTimeout", "dismiss"}
               /\ last'.arg = id
               /\ ~Shown(id) )
             => /\ container' = container
                /\ faults' = faults
                /\ Len(toasts') = Len(toasts)
                /\ \A j \in 1..Len(toasts) : j # id => toasts'[j] = toasts[j]
                /\ timers' \subseteq timers
                /\ timers \ timers' \subseteq ToastTimers(id)
      ]_vars

\* The timer of a dismissed toast has run, and the toast was clicked again.
ToastLeavesOnceWitness ==
    \E id \in 1..Len(toasts) :
        /\ toasts[id].dismissed
        /\ ~TimerPending(id)
        /\ last.event = "dismiss"
        /\ last.arg = id
        /\ \E other \in 1..Len(toasts) : Shown(other)

\* C3, as claimed: once a toast is dismissed, no timer of it is pending.
DismissalCancelsTimer ==
    \A id \in 1..Len(toasts) : toasts[id].dismissed => ~TimerPending(id)

\* C3, amended: a click on the close button of a toast leaves every pending
\* timer pending, the toast's own included; the timer of a toast stays
\* pending until 5000 ms after the push, dismissed or not.
DismissalKeepsTimer ==
    [][ /\ last'.event = "dismiss" => timers' = timers
        /\ \A id \in 1..Len(toasts) :
               (TimerPending(id) /\ ~TimerPending(id)')
                   => toasts[id].age = ToastTTL
      ]_vars

\* A toast was just dismissed and its timer is pending.
DismissalKeepsTimerWitness ==
    \E id \in 1..Len(toasts) :
        /\ toasts[id].dismissed
        /\ TimerPending(id)
        /\ toasts[id].age > 0
        /\ last.event = "dismiss"
        /\ last.arg = id

(***************************************************************************)
(* The location form.                                                      *)
(***************************************************************************)
ErrorToast == <<"toast", "error", "Please fill in all required fields">>
AddingToast == <<"toast", "info", "Adding location...">>
AddedToast == <<"toast", "success", "Location added successfully!">>

\* The fields as the claims read them: the name is empty, or a coordinate
\* is no number.
NotNumeric(str) == parseFloat(str).nan

Incomplete(f) ==
    f.name = "" \/ NotNumeric(f.latitude) \/ NotNumeric(f.longitude)

\* This step pushes exactly one toast, of the given effect, with its timer,
\* and sets no other timer.
PushesOnly(effect) ==
    /\ Len(toasts') = Len(toasts) + 1
    /\ \A j \in 1..Len(toasts) : toasts'[j] = toasts[j]
    /\ toasts'[Len(toasts')].type = effect[2]
    /\ toasts'[Len(toasts')].message = effect[3]
    /\ container' = Append(container, Len(toasts'))
    /\ timers \subseteq timers'
    /\ \A t \in timers' \ timers :
           t.kind = "toast" /\ t.arg = Len(toasts') /\ t.left = ToastTTL
    /\ Cardinality(timers' \ timers) = 1

\* C4: a submission with an empty name or a coordinate that is no number
\* pushes the one error toast and does nothing else: no request, no info
\* toast, no completion timer, the modal, the form and the dashboard stay
\* as they are.
RejectionOnly ==
    [][(last'.event = "submit" /\ Incomplete(form))
          => /\ last'.effects = <<ErrorToast>>
             /\ PushesOnly(ErrorToast)
             /\ requests' = requests
             /\ modal' = modal
             /\ form' = form
             /\ faults' = faults
             /\ <<chart, lastRange, rng, api, storage>>'
                    = <<chart, lastRange, rng, api, storage>>
      ]_vars

\* The open form was submitted with a latitude that is no number.
RejectionOnlyWitness ==
    /\ last.event = "submit"
    /\ last.effects = <<ErrorToast>>
    /\ form.name = "Home"
    /\ form.latitude = <<"a", "b", "c">>
    /\ ~NotNumeric(form.longitude)
    /\ modal.visibility = "visible"

\* This step sets the completion timer of a submission, for 1500 ms.
SetsSubmitTimer ==
    \E t \in timers' \ timers :
        /\ t.kind = "submit"
        /\ t.left = SubmitDelay
        /\ \A u \in timers' \ timers : u = t \/ u.kind = "toast"

\* C5, as claimed: a submission is rejected exactly when the name is empty
\* or a coordinate is no number; every other submission, a coordinate of 0
\* included, pushes the info toast and calls submitLocationData.
ValidationAcceptsNumbers ==
    [][last'.event = "submit"
          => IF Incomplete(form)
             THEN last'.effects = <<ErrorToast>>
             ELSE last'.effects = <<AddingToast>> /\ SetsSubmitTimer
      ]_vars

\* C6, as claimed: a submission with a name and two numbers pushes the info
\* toast at once and sets the 1500 ms timer; the success toast, the hiding
\* of the modal, the reset of the form and the reload happen in this order,
\* in the callback of that timer and nowhere else.
SubmissionFlow ==
    [][/\ (last'.event = "submit" /\ ~Incomplete(form))
            => /\ last'.effects = <<AddingToast>>
               /\ SetsSubmitTimer
       /\ (\E i \in 1..Len(last'.effects) :
               last'.effects[i] \in {AddedToast, <<"resetForm">>})
            => /\ last'.event = "submitTimeout"
               /\ last'.effects = <<AddedToast, <<"hideModal">>,
                                    <<"resetForm">>, <<"loadDashboardData">>>>
               /\ \E t \in timers \ timers' : t.kind = "submit" /\ t.left = 0
               /\ modal'.visibility = "hidden"
               /\ form' = FormDefault
      ]_vars

(***************************************************************************)
(* The API client.                                                         *)
(***************************************************************************)
HasHeader(call, name) ==
    "headers" \in DOMAIN call.config /\ name \in DOMAIN call.config["headers"]

\* C7, as claimed: every request carries Authorization: Bearer <token> with
\* the token read at construction when one was read, whatever the options
\* and whatever the storage holds by then, and no Authorization header when
\* none was read.
BearerOnEveryRequest ==
    \A i \in 1..Len(requests) :
        IF api.token # Null /\ api.token # ""
        THEN /\ HasHeader(requests[i], "Authorization")
             /\ requests[i].config["headers"]["Authorization"]
                    = Bearer(api.token)
        ELSE ~HasHeader(requests[i], "Authorization")

Thrown == {i \in 1..Len(requests) : requests[i].state = "thrown"}

\* C8: a request whose fetch is rejected or whose response is not ok ends
\* thrown, with exactly one toast of its own, the error toast 'API request
\* failed'; a request returns only on an ok response with a parseable body,
\* and then with no toast; no request pushes a toast before it fails.
FailureToastsOnce ==
    /\ \A i \in 1..Len(requests) :
          LET call == requests[i]
          IN  /\ call.state = "thrown"
                   => /\ Cardinality(call.toastIds) = 1
                      /\ \A id \in call.toastIds :
                             /\ id \in 1..Len(toasts)
                             /\ toasts[id].message = "API request failed"
                             /\ toasts[id].type = "error"
              /\ call.state # "thrown" => call.toastIds = {}
              /\ call.state \in {"parsing", "returned"}
                   => ResponseOk(call.response)
              /\ call.state = "returned" => call.response.parseable
              /\ (call.response.status # 0 /\ ~ResponseOk(call.response))
                   => call.state = "thrown"
    /\ Len(toasts) = Cardinality(Thrown)
    /\ \A i \in Thrown, j \in Thrown :
           i # j => requests[i].toastIds \cap requests[j].toastIds = {}

\* A request got a 404 with a parseable body and was thrown with its toast.
FailureToastsOnceWitness ==
    \E i \in 1..Len(requests) :
        /\ requests[i].state = "thrown"
        /\ requests[i].response = [status |-> 404, parseable |-> TRUE]
        /\ Len(toasts) = 1

(***************************************************************************)
(* The temperature chart.                                                  *)
(***************************************************************************)
\* The number of points the claims give for a range token.
PointsOf(token) ==
    IF token = "7d" THEN 7
    ELSE IF token = "90d" THEN 90
    ELSE IF token = "1y" THEN 365
    ELSE 30

\* C9: once the chart exists, its labels and its data have the same length,
\* the one of the last range token: 7, 30, 90, 365 for 7d, 30d, 90d, 1y and
\* 30 for any other token and before the first change of range; a change
\* of range replaces both arrays by newly generated ones, whatever they
\* held before.
ChartSeriesPaired ==
    /\ [](chart.exists =>
            /\ Len(chart.labels) = PointsOf(lastRange)
            /\ Len(chart.data) = PointsOf(lastRange)
            /\ DOMAIN chart.labels = DOMAIN chart.data)
    /\ [][(last'.event = "timeSelectorChange" /\ chart.exists)
            => LET n == PointsOf(lastRange')
               IN  /\ chart'.labels = generateDateLabels(n, today)
                   /\ chart'.data = generateTemperatureData(n, rng).data
         ]_vars

\* The range 1y was selected: the chart holds 365 labels and 365 values.
ChartSeriesPairedWitness ==
    /\ chart.exists
    /\ lastRange = "1y"
    /\ Len(chart.labels) = 365
    /\ Len(chart.data) = 365
    /\ last.event = "timeSelectorChange"

\* The days from 1 January of year 1 to the given day, by the calendar.
DaysBeforeMonth ==
    <<0, 31, 59, 90, 120, 151, 181, 212, 243, 273, 304, 334>>

DayNumber(y, m, d) ==
    365 * (y - 1) + (y - 1) \div 4 - (y - 1) \div 100 + (y - 1) \div 400
        + DaysBeforeMonth[m + 1]
        + (IF m > 1 /\ IsLeapYear(y) THEN 1 ELSE 0)
        + d

\* The label is that of the day k days before day.
LabelsDayBefore(label, day, k) ==
    \E y \in {day.y - 1, day.y}, m \in 0..11 :
        /\ label.month = MonthShort[m + 1]
        /\ label.day \in 1..DaysInMonth(y, m)
        /\ DayNumber(y, m, label.day) = DayNumber(day.y, day.m, day.d) - k

\* C10: the labels a step generates are one per day, oldest first, the last
\* one today's: label i of n (from 0) is the day n - 1 - i days before today.
LabelsEndToday ==
    [][(last'.event \in {"initializeApp", "timeSelectorChange"}
            /\ chart'.exists)
          => LET n == PointsOf(lastRange')
             IN  /\ Len(chart'.labels) = n
                 /\ \A k \in 1..n :
                        LabelsDayBefore(chart'.labels[k], today, n - k)
      ]_vars

\* The range 7d on 1 March 2024: the labels run from 24 Feb, over 29 Feb.
LabelsEndTodayWitness ==
    /\ chart.exists
    /\ lastRange = "7d"
    /\ last.event = "timeSelectorChange"
    /\ today = [y |-> 2024, m |-> 2, d |-> 1]
    /\ chart.labels[1] = [month |-> "Feb", day |-> 24]
    /\ chart.labels[6] = [month |-> "Feb", day |-> 29]
    /\ chart.labels[7] = [month |-> "Mar", day |-> 1]

(***************************************************************************)
(* The stat animation.                                                     *)
(***************************************************************************)
\* The number an element displays.
Displayed(text) == Fraction(parseFloat(text))

FracLeq(a, b) == a.n * b.d <= b.n * a.d
FracEq(a, b) == a.n * b.d = b.n * a.d

\* x lies between a and b, the ends included.
Between(a, x, b) ==
    \/ FracLeq(a, x) /\ FracLeq(x, b)
    \/ FracLeq(b, x) /\ FracLeq(x, a)

\* C11, as claimed: a run of animateNumber displays start when it is
\* called; every frame moves the displayed value toward end, never past
\* end and never back; the first frame at or after the duration displays
\* exactly end and requests no further frame, every earlier one requests
\* one.
AnimationMonotone ==
    [][/\ last'.event = "animateNumber"
            => LET call == last'.effects[1]
               IN  FracEq(Displayed(stats'[call[2]]), Fraction(call[3]))
       /\ (last'.event = "animationFrame" /\ Len(frames) = 1)
            => LET run == frames[1]
                   now == run.elapsed + last'.arg
               IN  /\ Between(Displayed(stats[run.element]),
                              Displayed(stats'[run.element]),
                              Fraction(run.end))
                   /\ now >= run.duration
                        => /\ FracEq(Displayed(stats'[run.element]),
                                     Fraction(run.end))
                           /\ frames' = <<>>
                   /\ now < run.duration => Len(frames') = 1
      ]_vars

(***************************************************************************)
(* The action cards.                                                       *)
(***************************************************************************)
\* The toasts and the delay the claims give for a flow.
FlowInfo(kind) ==
    CASE kind = "analysis" -> "Starting climate analysis..."
      [] kind = "report" -> "Generating climate report..."
      [] kind = "emergency" -> "Creating emergency plan..."

FlowSuccess(kind) ==
    CASE kind = "analysis" -> "Analysis completed!"
      [] kind = "report" -> "Report generated successfully!"
      [] kind = "emergency" -> "Emergency plan created!"

FlowDelay(kind) ==
    CASE kind = "analysis" -> 3000
      [] kind = "report" -> 2000
      [] kind = "emergency" -> 2500

CardFlows == {"analysis", "report", "emergency"}

\* The toasts with the given message, those pushed so far.
ToastsSaying(message) ==
    {i \in 1..Len(toasts) : toasts[i].message = message}

\* C12: a click on the card 'location' opens the modal and pushes no
\* toast; a click on 'analysis', 'report' or 'emergency' pushes the info
\* toast of that flow at once and sets one timer of 3000, 2000 or 2500 ms;
\* the success toast of a flow is pushed only by the callback of such a
\* timer when its delay has passed, one per click; a click on any other
\* card pushes no toast, opens no modal and sets no timer.
ActionCardRouting ==
    /\ [][last'.event = "actionCardClick"
            => LET action == ActionValues[last'.arg]
               IN  IF action = "location"
                   THEN /\ modal'.visibility = "visible"
                        /\ toasts' = toasts
                        /\ timers' = timers
                   ELSE IF action \in CardFlows
                   THEN /\ last'.effects
                               = << <<"toast", "info", FlowInfo(action)>> >>
                        /\ Len(toasts') = Len(toasts) + 1
                        /\ toasts'[Len(toasts')].message = FlowInfo(action)
                        /\ toasts'[Len(toasts')].type = "info"
                        /\ timers \subseteq timers'
                        /\ Cardinality(timers' \ timers) = 2
                        /\ \E t \in timers' \ timers :
                               /\ t.kind = action
                               /\ t.left = FlowDelay(action)
                               /\ ~t.repeat
                        /\ \E t \in timers' \ timers : t.kind = "toast"
                        /\ modal' = modal
                   ELSE /\ toasts' = toasts
                        /\ container' = container
                        /\ modal' = modal
                        /\ timers' = timers
         ]_vars
    /\ [][\A kind \in CardFlows :
             ToastsSaying(FlowSuccess(kind))' # ToastsSaying(FlowSuccess(kind))
               => /\ last'.event = "flowTimeout"
                  /\ last'.effects
                         = << <<"toast", "success", FlowSuccess(kind)>> >>
                  /\ \E t \in timers \ timers' :
                         /\ t.kind = kind
                         /\ t.delay = FlowDelay(kind)
                         /\ t.left = 0
         ]_vars
    /\ [](\A kind \in CardFlows :
             Cardinality(ToastsSaying(FlowSuccess(kind)))
                 + Cardinality({t \in timers : t.kind = kind})
               = Cardinality(ToastsSaying(FlowInfo(kind))))

\* A report was started and, 2000 ms later, its success toast was pushed.
ActionCardRoutingWitness ==
    /\ last.event = "flowTimeout"
    /\ ToastsSaying("Report generated successfully!") # {}
    /\ \E i \in ToastsSaying("Generating climate report...") :
           toasts[i].age = 2000
    /\ modal.visibility # "visible"

(***************************************************************************)
(* The bootstrap.                                                          *)
(***************************************************************************)
BootstrapOrder ==
    << <<"initializeNavigation">>, <<"initializeSearch">>,
       <<"initializeModals">>, <<"initializeCharts">>, <<"initializeMap">>,
       <<"initializeActionCards">>, <<"initializeNotifications">>,
       <<"loadDashboardData">> >>

\* The stat elements whose text parses as a number.
Qualifying == {i \in DOMAIN stats : ~parseFloat(stats[i]).nan}

\* The runs of animateNumber the step starts.
StartedRuns == SubSeq(frames', Len(frames) + 1, Len(frames'))

\* C13: the bootstrap initializes navigation, search, modals, charts, map,
\* action cards and notifications in this order and then issues one
\* dashboard load, which starts no animation yet; the animation starts in
\* the callback of the load, when its 1000 ms have passed, with one run
\* per stat element whose text is a number, and in no other step.
BootstrapThenLoad ==
    [][/\ last'.event = "initializeApp"
            => /\ last'.effects = BootstrapOrder
               /\ Cardinality({t \in timers' : t.kind = "dashboard"}) = 1
               /\ \A t \in timers' :
                      t.kind = "dashboard" => t.left = DashboardDelay
               /\ frames' = frames
               /\ stats' = stats
       /\ last'.event = "dashboardTimeout"
            => /\ \E t \in timers \ timers' :
                      t.kind = "dashboard" /\ t.left = 0
               /\ Len(frames') = Len(frames) + Cardinality(Qualifying)
               /\ \A i \in Qualifying :
                      /\ Cardinality({k \in DOMAIN StartedRuns :
                             StartedRuns[k].element = i}) = 1
                      /\ \A k \in DOMAIN StartedRuns :
                             StartedRuns[k].element = i
                               => /\ StartedRuns[k].elapsed = 0
                                  /\ StartedRuns[k].end = parseFloat(stats[i])
               /\ \A i \in DOMAIN stats \ Qualifying : stats'[i] = stats[i]
       /\ last'.event \notin {"dashboardTimeout", "animationFrame", "tick"}
            => frames' = frames /\ stats' = stats
       /\ last'.event = "tick" => stats' = stats
      ]_vars

\* The load of the bootstrap has started the two runs, on "42" and "8.5".
BootstrapThenLoadWitness ==
    /\ last.event = "dashboardTimeout"
    /\ Len(frames) = 2
    /\ frames[1].element = 1 /\ frames[2].element = 2
    /\ stats = << <<"0", ".", "0">>, <<"0", ".", "0">>, <<"N", "/", "A">> >>
    /\ \A t \in timers : t.kind = "poll" /\ t.left = PollInterval - DashboardDelay

(***************************************************************************)
(* The notification poll.                                                  *)
(***************************************************************************)
PollTimers == {t \in timers : t.kind = "poll"}

\* C14: there is no poll timer before the bootstrap and exactly one after
\* it; no step cancels or resets it: it counts down with time only and is
\* set again to 30000 ms when it fires; the hook checkForNotifications runs
\* in the steps where it fires and in no other; and it fires again and
\* again for ever, whatever toasts, submissions, flows and requests are
\* under way.
PollForever ==
    /\ [](Cardinality(PollTimers) = IF initialized THEN 1 ELSE 0)
    /\ [][\A t \in PollTimers :
             \E u \in PollTimers' :
                 /\ u.id = t.id
                 /\ u.delay = PollInterval
                 /\ u.repeat
                 /\ u.left = CASE last'.event = "tick" -> t.left - TickMs
                                [] last'.event = "pollTimeout" -> PollInterval
                                [] OTHER -> t.left
         ]_vars
    /\ [][/\ last'.event = "pollTimeout"
               => /\ last'.effects = << <<"checkForNotifications">> >>
                  /\ \A t \in PollTimers : t.left = 0
          /\ (\E i \in DOMAIN last'.effects :
                  last'.effects[i] = <<"checkForNotifications">>)
               => last'.event = "pollTimeout"
         ]_vars
    /\ []<>(last.event = "pollTimeout")

\* The poll fires while a toast is shown, a timer of a submission or of a
\* flow is pending and a request waits for its response.
PollForeverWitness ==
    /\ last.event = "pollTimeout"
    /\ container # <<>>
    /\ \E t \in timers : t.kind \in FlowKinds \cup {"submit"}
    /\ \E i \in DOMAIN requests : requests[i].state = "fetching"

(***************************************************************************)
(* The search overlay.                                                     *)
(***************************************************************************)
SearchIsOpen == search.visibility = "visible"

EscapePressed == last'.event = "keydown" /\ KeyValues[last'.arg] = "Escape"

\* C15: the overlay becomes open only by a click on #search-btn, and such
\* a click opens it; it becomes closed by a click on #search-close or by
\* Escape while it is open, and by nothing else; Escape while it is not
\* open, any other key, a click on any element without a listener of its
\* own (outside the overlay or within it) and a change of the input leave
\* its style as it is.
SearchOverlayMachine ==
    [][/\ (SearchIsOpen' /\ ~SearchIsOpen) => last'.event = "searchBtnClick"
       /\ last'.event = "searchBtnClick"
            => SearchIsOpen' /\ focus' = "global-search"
       /\ last'.event = "searchCloseClick"
            => search' = [visibility |-> "hidden", opacity |-> "0"]
       /\ (EscapePressed /\ SearchIsOpen)
            => search' = [visibility |-> "hidden", opacity |-> "0"]
       /\ (last'.event = "keydown" /\ ~(EscapePressed /\ SearchIsOpen))
            => search' = search
       /\ last'.event \in {"documentClick", "searchInput"}
            => search' = search
       /\ (SearchIsOpen /\ ~SearchIsOpen')
            => last'.event = "searchCloseClick" \/ EscapePressed
      ]_vars

\* Escape was pressed with the overlay open and a query typed: the overlay
\* is hidden, the input keeps the focus and its text.
SearchOverlayMachineWitness ==
    /\ last.event = "keydown"
    /\ KeyValues[last.arg] = "Escape"
    /\ search = [visibility |-> "hidden", opacity |-> "0"]
    /\ focus = "global-search"
    /\ query = <<"m", "i", "a", "m", "i">>

(***************************************************************************)
(* Requests.                                                               *)
(***************************************************************************)
ApiEvents ==
    {"request", "getClimateData", "startAnalysis", "getRecommendations"}

\* The calls of fetch a step makes.
Fetched == {i \in DOMAIN last'.effects : last'.effects[i] = <<"fetch">>}

SectionHooks ==
    SelectSeq(last'.effects, LAMBDA e : e[1] = "navigateToSection")

\* C17: at most one link is active in every state; a click on a link leaves
\* exactly that link active and calls navigateToSection once, with the
\* link's href; no other step changes the active link or calls the hook.
NavSingleActive ==
    /\ [](Cardinality(navActive) <= 1)
    /\ [][IF last'.event = "navClick"
          THEN /\ navActive' = {last'.arg}
               /\ SectionHooks =
                      << <<"navigateToSection", NavLinks[last'.arg]>> >>
          ELSE /\ navActive' = navActive
               /\ SectionHooks = <<>>
         ]_vars

\* The third link was clicked, with the overlay open and the menu toggled.
NavSingleActiveWitness ==
    /\ last.event = "navClick"
    /\ last.arg = 3
    /\ navActive = {3}
    /\ navMenu
    /\ search.visibility = "visible"

(***************************************************************************)
(* The location modal.                                                     *)
(***************************************************************************)
ModalHidden == [visibility |-> "hidden", opacity |-> "0"]

OnBackdrop ==
    /\ last'.event = "documentClick"
    /\ TargetValues[last'.arg] = "location-modal"

\* C18: a click on the close control, on the cancel control or on the
\* overlay itself hides the modal; a click on any other target, the
\* modal's content included, leaves the modal as it is; hiding a hidden
\* modal leaves it hidden.
ModalDismissal ==
    [][/\ last'.event = "closeModalClick" \/ OnBackdrop
          => modal' = ModalHidden
       /\ last'.event = "documentClick" /\ ~OnBackdrop => modal' = modal
       /\ modal = ModalHidden
             /\ last'.event \in {"closeModalClick", "documentClick"}
          => modal' = ModalHidden
      ]_vars

\* The modal was hidden by a click on the overlay.
ModalDismissalWitness ==
    /\ last.event = "documentClick"
    /\ TargetValues[last.arg] = "location-modal"
    /\ last.effects = << <<"hideModal">> >>
    /\ modal = ModalHidden
    /\ navActive = {2}

(***************************************************************************)
(* The order of the toasts.                                                *)
(***************************************************************************)
\* C19: the toasts in the container stand in the order of their pushes
\* (toast ids count the pushes), and when a toast is removed by its timer
\* no toast pushed before it is still in the container.
ToastsInPushOrder ==
    /\ [](\A i, j \in DOMAIN container :
              i < j => container[i] < container[j])
    /\ [](\A i \in DOMAIN container : container[i] \in DOMAIN toasts)
    /\ [][last'.event = "toastTimeout"
          => \A i \in DOMAIN container' : container'[i] > last'.arg
         ]_vars

\* The first of two toasts was removed by its timer, the second is shown.
ToastsInPushOrderWitness ==
    /\ last.event = "toastTimeout"
    /\ last.arg = 1
    /\ ~toasts[1].dismissed
    /\ container = <<2>>

(***************************************************************************)
(* The independence of the toasts.                                         *)
(***************************************************************************)
ToastTimersOf(ts, id) == {t \in ts : t.kind = "toast" /\ t.arg = id}

\* The toast a step is about.
ActedToast == IF last'.event = "showToast" THEN Len(toasts') ELSE last'.arg

\* C20: a push, a dismissal or an expiry of one toast leaves every other
\* toast in or out of the container as it was, with its timer as it was;
\* while no toast was dismissed and no toast's timer has run, every toast
\* pushed is in the container.
ToastsIndependent ==
    /\ [][last'.event \in {"showToast", "dismiss", "toastTimeout"}
          => \A id \in DOMAIN toasts' :
                 id # ActedToast
                 => /\ Shown(id)' = Shown(id)
                    /\ ToastTimersOf(timers', id) = ToastTimersOf(timers, id)
         ]_vars
    /\ []((\A id \in DOMAIN toasts :
               /\ ~toasts[id].dismissed
               /\ ToastTimersOf(timers, id) # {})
          => container = [id \in DOMAIN toasts |-> id])

\* A second toast was pushed while the timer of the first was running:
\* both are shown, each with its own timer.
ToastsIndependentWitness ==
    /\ last.event = "showToast"
    /\ container = <<1, 2>>
    /\ \E t \in ToastTimersOf(timers, 1), u \in ToastTimersOf(timers, 2) :
           /\ t.left > 0
           /\ t.left < u.left

(***************************************************************************)
(* Submissions of the form run to their completion.                        *)
(***************************************************************************)
ToastsOf(message) ==
    Cardinality({i \in DOMAIN toasts : toasts[i].message = message})

\* Submissions accepted, completions that have run, completions waiting.
Accepted == ToastsOf("Adding location...")
Succeeded == ToastsOf("Location added successfully!")
PendingSubmits == Cardinality({t \in timers : t.kind = "submit"})

\* The dashboard loads asked for after the bootstrap: every timer set so
\* far is the poll's or the load's of the bootstrap, a toast's, a
\* submission's or such a load's.
Reloads ==
    timerCount - (IF initialized THEN 2 ELSE 0) - Len(toasts) - Accepted

\* C21: every accepted submission is completed once, whatever is done to
\* the modal and however many submissions follow while it waits: the
\* completions that ran and those that wait are as many as the accepted
\* submissions, the dashboard was reloaded once for each completion, a
\* waiting completion is given up by no step, the completion shows the
\* success toast, hides the modal, resets the form and reloads the
\* dashboard, and every accepted submission is completed in the end.
SubmissionCompletes ==
    /\ [](Accepted = Succeeded + PendingSubmits)
    /\ [](Reloads = Succeeded)
    /\ [][IF last'.event = "submitTimeout"
          THEN /\ last'.effects =
                      << <<"toast", "success", "Location added successfully!">>,
                         <<"hideModal">>, <<"resetForm">>,
                         <<"loadDashboardData">> >>
               /\ Succeeded' = Succeeded + 1
               /\ PendingSubmits' = PendingSubmits - 1
               /\ modal'.visibility = "hidden"
               /\ form' = FormDefault
          ELSE /\ Succeeded' = Succeeded
               /\ \A t \in timers :
                      t.kind = "submit" => \E u \in timers' : u.id = t.id
         ]_vars
    /\ \A n \in 1..MaxFlows :
           (Accepted >= n) ~> (Succeeded >= n /\ Reloads >= n)

\* Two submissions were accepted, the second while the first was waiting;
\* the completion of the second has run and none is waiting.
SubmissionCompletesWitness ==
    /\ last.event = "submitTimeout"
    /\ Accepted = 2
    /\ Succeeded = 2
    /\ Reloads = 2
    /\ PendingSubmits = 0

(***************************************************************************)
(* The stats after the dashboard loads.                                    *)
(***************************************************************************)
\* Two results of parseFloat are the same number, or both NaN.
SameNumber(a, b) ==
    IF a.nan \/ b.nan THEN a.nan = b.nan
    ELSE /\ a.mant * Pow10(b.scale) = b.mant * Pow10(a.scale)
         /\ a.mant # 0 => a.neg = b.neg

\* C22: whenever no animation is running, every stat element shows the
\* number it showed when the page was loaded.
StatsSettleBack ==
    [](frames = <<>>
       => \A i \in DOMAIN stats :
              SameNumber(parseFloat(stats[i]), parseFloat(StatValues[i])))

(***************************************************************************)
(* Failures.                                                               *)
(***************************************************************************)
\* The state outside the notification container, its timers and the
\* requests.
Rest(s) ==
    [initialized |-> s.initialized, faults |-> s.faults, form |-> s.form,
     modal |-> s.modal, storage |-> s.storage, api |-> s.api,
     canvas |-> s.canvas, chart |-> s.chart, lastRange |-> s.lastRange,
     today |-> s.today, nights |-> s.nights, rng |-> s.rng,
     stats |-> s.stats, frames |-> s.frames, search |-> s.search,
     focus |-> s.focus, query |-> s.query, navActive |-> s.navActive,
     navMenu |-> s.navMenu]

\* What a handler did that took state b to state a: the state it left,
\* with the toasts, timers and requests it made in place of all of them.
Outcome(b, a) ==
    [a EXCEPT !.toasts = SubSeq(@, Len(b.toasts) + 1, Len(@)),
              !.container = Len(@) - Len(b.container),
              !.timers = {[kind |-> t.kind, delay |-> t.delay,
                           left |-> t.left, repeat |-> t.repeat] :
                          t \in @ \ b.timers},
              !.timerCount = @ - b.timerCount,
              !.requests = SubSeq(@, Len(b.requests) + 1, Len(@))]

FilledForm ==
    [name |-> "Home", address |-> "", latitude |-> <<"5">>,
     longitude |-> <<"7">>, propertyType |-> "residential"]

\* The events that may follow, handled in state b: a valid submission,
\* the action cards, a change to a range of a week or of a month, a
\* request.
Following(b) ==
    [submit |-> Outcome(b, handleLocationSubmission(
                               [b EXCEPT !.form = FilledForm])),
     cards |-> [a \in DOMAIN ActionValues |->
                   Outcome(b, handleActionCardClick(b, ActionValues[a]))],
     ranges |-> [r \in {"7d", "30d"} |->
                    Outcome(b, updateChartData(b, r))],
     request |-> Outcome(b, request(b, <<"/status">>, EmptyObject))]

\* The step is a submission that fails the validation.
ValidationFailed ==
    /\ last'.event = "submit"
    /\ \E i \in (Len(toasts) + 1)..Len(toasts') :
           toasts'[i].message = "Please fill in all required fields"

\* The step is a request that fails: fetch is rejected, the response is
\* not ok, or its body does not parse.
RequestFailed ==
    /\ last'.event \in {"fetchRejected", "fetchFulfilled", "jsonSettled"}
    /\ requests'[last'.arg].state = "thrown"

\* C23: a submission that fails the validation and a request that fails
\* add one error toast to the container, throw nothing the page does not
\* catch and change nothing else but the toast's timer and the failed
\* request; a valid submission, an action card, a range change and a
\* request are handled after the failure as they are before it.
NoFailureFatal ==
    [][ValidationFailed \/ RequestFailed
       => /\ Len(toasts') = Len(toasts) + 1
          /\ toasts'[Len(toasts')].type = "error"
          /\ container' = Append(container, Len(toasts'))
          /\ \E i \in DOMAIN last'.effects :
                 /\ last'.effects[i][1] = "toast"
                 /\ last'.effects[i][2] = "error"
          /\ \A i \in DOMAIN last'.effects :
                 last'.effects[i][1] \in {"toast", "console.error"}
          /\ Rest(Cur("next"))' = Rest(Cur("next"))
          /\ \E t \in timers' :
                 /\ t.kind = "toast"
                 /\ t.arg = Len(toasts')
                 /\ timers' = timers \cup {t}
          /\ Len(requests') = Len(requests)
          /\ \A i \in DOMAIN requests :
                 ValidationFailed \/ i # last'.arg
                 => requests'[i] = requests[i]
          /\ Following(Cur("next"))' = Following(Cur("next"))
      ]_vars

\* A request has failed with its error toast, and a submission made after
\* it was accepted and completed.
NoFailureFatalWitness ==
    /\ \E r \in DOMAIN requests : requests[r].state = "thrown"
    /\ \E i, j, k \in DOMAIN toasts :
           /\ i < j
           /\ j < k
           /\ toasts[i].message = "API request failed"
           /\ toasts[j].message = "Adding location..."
           /\ toasts[k].message = "Location added successfully!"
    /\ last.event = "submitTimeout"
    /\ faults = 0

====
